---- MODULE Spec2Model ----
(***************************************************************************)
(* Model of the trackmymoney backend: the DatabaseManager connection       *)
(* registry and schema bootstrap (src/middleware/auth.js, lines 41-183),   *)
(* the category routes (src/routes/categories.js) and the transaction      *)
(* routes (src/routes/auth.js, lines 145-577).                             *)
(*                                                                         *)
(* Every sqlite3 call of a handler (db.get, db.all, db.run) is one atomic  *)
(* step: the statement runs when the engine gets to it and its callback    *)
(* issues the next statement.  The synchronous prefix of a handler (input  *)
(* validation and DatabaseManager.getConnection) is one step.  Steps of    *)
(* different requests interleave freely.                                   *)
(***************************************************************************)
EXTENDS Integers, Sequences, FiniteSets, TLC

(***************************************************************************)
(* Bounds of the model.                                                    *)
(***************************************************************************)
\* request slots: how many requests can be in flight at once
MaxInFlight == 2
\* AUTOINCREMENT ceilings: rows a shard may receive through the API
MaxUserCats == 1
MaxTxs == 2
\* sqlite3.Database objects ever constructed
MaxHandles == 3
\* the milliseconds the clock can advance
MaxClock == 2

(***************************************************************************)
(* Values                                                                  *)
(***************************************************************************)
\* a field the request does not carry (undefined in JavaScript)
NoParam == [t |-> "absent"]
\* the year NaN, which getFullYear() yields for text that is not a date
NaNYear == 0
\* no sqlite3.Database object
NoHandle == 0

\* number of rows seeded by the bootstrap script
NumDefaults == 14
DefaultIds == 1..NumDefaults

\* the two values the application accepts for a type
Types == {"income", "expense"}

(***************************************************************************)
(* JavaScript values of the request body.  A number n is [t |-> "num",     *)
(* v |-> n]; a string is [t |-> "str", v |-> <<chars>>].                   *)
(***************************************************************************)
Num(n) == [t |-> "num", v |-> n]
Str(s) == [t |-> "str", v |-> s]

Digits == {"0", "1", "2", "3", "4", "5", "6", "7", "8", "9"}

DigitVal(c) ==
    CASE c = "0" -> 0 [] c = "1" -> 1 [] c = "2" -> 2 [] c = "3" -> 3
      [] c = "4" -> 4 [] c = "5" -> 5 [] c = "6" -> 6 [] c = "7" -> 7
      [] c = "8" -> 8 [] c = "9" -> 9

\* value of the longest run of digits at the front of s, NaN if there is none
RECURSIVE DigitPrefix(_, _, _)
DigitPrefix(s, acc, seen) ==
    IF s # <<>> /\ Head(s) \in Digits
    THEN DigitPrefix(Tail(s), 10 * acc + DigitVal(Head(s)), TRUE)
    ELSE [nan |-> ~seen, v |-> acc]

\* JavaScript !x for the values of the model
Falsy(x) ==
    \/ x.t = "absent"
    \/ x.t = "num" /\ x.v = 0
    \/ x.t = "str" /\ x.v = <<>>

\* JavaScript parseFloat: a number is itself; a string yields its longest
\* numeric prefix (optional sign, digits), NaN when there is none
ParseFloat(x) ==
    IF x.t = "num" THEN [nan |-> FALSE, v |-> x.v]
    ELSE IF x.v # <<>> /\ Head(x.v) = "-"
         THEN LET p == DigitPrefix(Tail(x.v), 0, FALSE)
              IN  [nan |-> p.nan, v |-> 0 - p.v]
         ELSE DigitPrefix(x.v, 0, FALSE)

\* amount <= 0 on numbers only, strings pass
NotPositiveNumber(x) == x.t = "num" /\ x.v <= 0

\* parseFloat(amount) <= 0 : every comparison with NaN is false
NotPositive(x) == LET p == ParseFloat(x) IN ~p.nan /\ p.v <= 0

\* is the whole string a well-formed number
WellFormed(s) ==
    LET body == IF s # <<>> /\ Head(s) = "-" THEN Tail(s) ELSE s
    IN  body # <<>> /\ \A i \in 1..Len(body) : body[i] \in Digits

\* the value SQLite keeps in a column of NUMERIC affinity (DECIMAL(10,2)):
\* a number stays a number, text that is a well-formed number is converted,
\* any other text is kept as text
StoredAmount(x) ==
    IF x.t = "num" THEN x
    ELSE IF WellFormed(x.v) THEN Num(ParseFloat(x).v) ELSE x

IsPositiveNumber(a) == a.t = "num" /\ a.v > 0

(***************************************************************************)
(* Dates.  A date string of the form YYYY-MM-DD is [k |-> "iso", y, d]     *)
(* with d the day of the year (1 is January 1st); any other non-empty      *)
(* text is TextDate; a missing date is NoDate.                             *)
(***************************************************************************)
IsoDate(y, d) == [k |-> "iso", y |-> y, d |-> d]
TextDate == [k |-> "text", y |-> 0, d |-> 0]
NoDate == [k |-> "absent", y |-> 0, d |-> 0]

\* the calendar year written in the date text, NaNYear when it has none
YearOfDate(date) == IF date.k = "iso" THEN date.y ELSE NaNYear

\* new Date(date).getFullYear(): a date-only string is parsed as midnight
\* UTC and getFullYear() reads it in the local time zone of the process, so
\* west of UTC January 1st falls in the previous year; text that is not a
\* date gives NaN
GetFullYear(date, west) ==
    IF date.k = "iso"
    THEN IF west /\ date.d = 1 THEN date.y - 1 ELSE date.y
    ELSE NaNYear

(***************************************************************************)
(* Users, tenants and shards                                               *)
(***************************************************************************)
Tenants == {1, 2}
Years == {2023, 2024}
ShardYears == Years \cup {NaNYear}

\* req.query.year is text the handlers never validate.  The text
\* "/../user_<t>_<y>" is not a year; the model writes it as a negative number
PathYear(t, y) == 0 - (10000 * t + y)
TraversalYears == {PathYear(2, 2024)}

\* the text "<y>.db" is not a year either; the model writes it as a number
\* above every year
DbYear(y) == 100000 + y
IsDbYear(year) == year > 100000
SuffixYears == {DbYear(2024)}

\* the registry key `${userId}_${year}`
Keys == Tenants \X (ShardYears \cup TraversalYears \cup SuffixYears)

\* path.join(dbPath, getDbFileName(userId, year)): path.join normalises the
\* joined path, so "user_1_/../user_2_2024.db" is the file user_2_2024.db.
\* A file is named by the key of the shard it belongs to
PathOf(key) ==
    IF key[2] < 0
    THEN <<(0 - key[2]) \div 10000, (0 - key[2]) % 10000>>
    ELSE key

\* getUserId: a superadmin may name another tenant in the query; parseInt
\* reads the digits at the front of the text
GetUserId(user, qUserId) ==
    IF user.role = "superadmin" /\ ~Falsy(qUserId)
    THEN ParseFloat(qUserId).v
    ELSE user.id

(***************************************************************************)
(* State                                                                   *)
(***************************************************************************)
VARIABLES
    tzWest,       \* the process runs in a time zone west of UTC
    store,        \* the database file of every shard
    connections,  \* DatabaseManager.connections: key -> Database object
    handles,      \* every sqlite3.Database object constructed so far
    reqs,         \* the requests in flight, one per slot
    ev,           \* what the last step returned to its caller
    lastGet,      \* key -> handle returned by getConnection since the last close
    lastClosed,   \* key -> handle the last closeConnection of the key closed
    now,          \* Date.now(), in milliseconds
    backups       \* the backup files on disk: name -> content

vars == <<tzWest, store, connections, handles, reqs, ev, lastGet, lastClosed,
          now, backups>>

Slots == 1..MaxInFlight
Idle == [op |-> "idle"]
NoEvent == [kind |-> "none"]

\* a database file that has not been created (store is indexed by the keys
\* that name files; the entry of a key with a year that is a path stays NoFile)
NoFile == [exists |-> FALSE, schema |-> FALSE, cats |-> <<>>, txs |-> <<>>,
           catSeq |-> 0, txSeq |-> 0]

(***************************************************************************)
(* Tables.  A table is a function from the ids of its rows to the rows;    *)
(* catSeq and txSeq are the AUTOINCREMENT counters of sqlite_sequence.     *)
(***************************************************************************)
Max(a, b) == IF a >= b THEN a ELSE b

HasRow(table, id) == id \in DOMAIN table

PutRow(table, id, row) ==
    [i \in DOMAIN table \cup {id} |-> IF i = id THEN row ELSE table[i]]

\* DELETE ... WHERE id <= ?
DropRowsUpTo(table, id) == [i \in {j \in DOMAIN table : j > id} |-> table[i]]

\* DELETE ... WHERE id = ?
DropRow(table, id) == [i \in DOMAIN table \ {id} |-> table[i]]

\* the fourteen rows of the seed statement
DefaultName(id) ==
    CASE id = 1 -> "Monthly Fund"  [] id = 2 -> "Special Fund"
      [] id = 3 -> "Donation"      [] id = 4 -> "Personal Money"
      [] id = 5 -> "Bank Loan"     [] id = 6 -> "Borrowed Money"
      [] id = 7 -> "Others"        [] id = 8 -> "Employee Salary"
      [] id = 9 -> "Foods & Treats" [] id = 10 -> "Conveyances"
      [] id = 11 -> "Purchase"     [] id = 12 -> "Rents"
      [] id = 13 -> "Utility Bills" [] id = 14 -> "Others"

\* a seed statement whose fourteen rows are all of type income
DefaultRowIncome(id) ==
    [name |-> DefaultName(id), type |-> "income", isDefault |-> TRUE]

DefaultRow(id) ==
    [name |-> DefaultName(id),
     type |-> IF id <= 7 THEN "income" ELSE "expense",
     isDefault |-> TRUE]

\* INSERT OR REPLACE: a row whose id is already taken is overwritten
SeedReplace(cats) ==
    [i \in DOMAIN cats \cup DefaultIds |->
        IF i \in DefaultIds THEN DefaultRow(i) ELSE cats[i]]

\* INSERT OR IGNORE INTO categories (id, ...) VALUES (1, ...), ..., (14, ...):
\* a row whose id is already taken is left as it is
Seed(cats) ==
    [i \in DOMAIN cats \cup DefaultIds |->
        IF i \in DOMAIN cats THEN cats[i] ELSE DefaultRow(i)]

\* the file after the schema script has run to its end: both tables exist
\* (CREATE TABLE IF NOT EXISTS keeps their rows), the defaults are seeded and
\* an explicit id moves the AUTOINCREMENT counter up to it
Bootstrapped(f) ==
    [exists |-> TRUE, schema |-> TRUE,
     cats |-> Seed(f.cats), txs |-> f.txs,
     catSeq |-> Max(f.catSeq, NumDefaults), txSeq |-> f.txSeq]

(***************************************************************************)
(* DatabaseManager                                                         *)
(***************************************************************************)
Cached(key) == connections[key] # NoHandle

\* what getConnection does to the registry and the file, for each outcome of
\* db.exec(schema): the Database object is constructed and cached before the
\* script runs, and the callback of db.exec only logs the error.  A script
\* that fails (the file cannot be opened or written) leaves the file as it
\* was; db.exec is queued ahead of every statement of the handle, so the
\* script has run when the first statement of a handler does
OpenNew(key, ok) ==
    LET h == Len(handles) + 1 IN
    /\ Len(handles) < MaxHandles
    /\ handles' = Append(handles, [key |-> key, closed |-> FALSE,
                                   reopen |-> lastClosed[key] # NoHandle])
    /\ connections' = [connections EXCEPT ![key] = h]
    /\ store' = IF ok THEN [store EXCEPT ![PathOf(key)] = Bootstrapped(@)]
                ELSE store
    /\ lastGet' = [lastGet EXCEPT ![key] = h]
    /\ ev' = [kind |-> "get", key |-> key, h |-> h, opened |-> TRUE,
              bootOk |-> ok, thrown |-> FALSE]

ReturnCached(key) ==
    /\ ev' = [kind |-> "get", key |-> key, h |-> connections[key],
              opened |-> FALSE, bootOk |-> TRUE, thrown |-> FALSE]
    /\ lastGet' = [lastGet EXCEPT ![key] = connections[key]]
    /\ UNCHANGED <<handles, connections, store>>

\* a getConnection without the lookup in the Map
GetConnectionNoCache(key, ok) == OpenNew(key, ok)

\* getConnection(userId, year); ok is the outcome of the schema script and
\* matters only when a new Database object is opened
GetConnection(key, ok) ==
    IF Cached(key) THEN ReturnCached(key) ELSE OpenNew(key, ok)

\* the handle getConnection hands to the handler in this step
Got == ev'.h

\* a closeConnection that evicts the entry and forgets db.close()
CloseConnectionNoClose(key) ==
    /\ handles' = handles
    /\ connections' = [connections EXCEPT ![key] = NoHandle]

\* closeConnection(userId, year)
CloseConnection(key) ==
    /\ handles' = IF Cached(key)
                  THEN [handles EXCEPT ![connections[key]].closed = TRUE]
                  ELSE handles
    /\ connections' = [connections EXCEPT ![key] = NoHandle]

\* a closeAllConnections that clears the Map and closes nothing
ClearConnections ==
    /\ handles' = handles
    /\ connections' = [k \in Keys |-> NoHandle]

\* closeAllConnections()
CloseAllConnections ==
    /\ handles' = [h \in DOMAIN handles |->
                     IF \E k \in Keys : connections[k] = h
                     THEN [handles[h] EXCEPT !.closed = TRUE]
                     ELSE handles[h]]
    /\ connections' = [k \in Keys |-> NoHandle]

(***************************************************************************)
(* The files of the data directory                                         *)
(***************************************************************************)
\* `backup_${getDbFileName(userId, year)}_${Date.now()}`
BackupName(key, ts) == <<key[1], key[2], ts>>

\* backupDatabase returned null
NoBackup == <<0, 0, 0>>

\* a backupDatabase that copies whether the file exists or not
BackupDatabaseUnchecked(key) ==
    /\ backups' = (BackupName(key, now) :> store[PathOf(key)]) @@ backups
    /\ ev' = [kind |-> "backup", key |-> key, file |-> BackupName(key, now)]

\* backupDatabase(userId, year): copyFileSync writes over a file that has
\* the name of the copy
BackupDatabase(key) ==
    IF store[PathOf(key)].exists
    THEN /\ backups' = (BackupName(key, now) :> store[PathOf(key)]) @@ backups
         /\ ev' = [kind |-> "backup", key |-> key, file |-> BackupName(key, now)]
    ELSE /\ backups' = backups
         /\ ev' = [kind |-> "backup", key |-> key, file |-> NoBackup]

\* fs.readdirSync(this.dbPath): the database files and the backup files
DirEntries ==
    {[kind |-> "db", key |-> k] : k \in {k \in Keys : PathOf(k) = k /\ store[k].exists}}
    \cup {[kind |-> "backup", key |-> <<n[1], n[2]>>] : n \in DOMAIN backups}

\* file.startsWith(`user_${userId}_`) && file.endsWith('.db'): the name of a
\* backup file starts with backup_ and ends with the time
IsUserFile(file, userId) == file.kind = "db" /\ file.key[1] = userId

\* file.match(/user_\d+_(\d{4})\.db/) yielded nothing
NoMatch == 0 - 1

\* parseInt(match[1]): the pattern is not anchored at the end, so it reads
\* the year 2024 in user_1_2024.db and in user_1_2024.db.db alike, and
\* nothing in user_1_NaN.db
MatchYear(file) ==
    LET year == file.key[2] IN
    IF IsDbYear(year) THEN year - 100000
    ELSE IF year >= 1000 /\ year <= 9999 THEN year
    ELSE NoMatch

\* .sort((a, b) => b - a) of the years of a set of files
RECURSIVE SortedYears(_)
SortedYears(files) ==
    IF files = {} THEN <<>>
    ELSE LET top == CHOOSE f \in files :
                       \A g \in files : MatchYear(f) >= MatchYear(g)
         IN  <<MatchYear(top)>> \o SortedYears(files \ {top})

\* getUserYears(userId)
GetUserYears(userId) ==
    SortedYears({f \in DirEntries : IsUserFile(f, userId) /\ MatchYear(f) # NoMatch})

(***************************************************************************)
(* Requests and responses                                                  *)
(***************************************************************************)
Req(op, pc, h, id, name, type, amount, date, cat) ==
    [op |-> op, pc |-> pc, h |-> h, id |-> id, name |-> name, type |-> type,
     amount |-> amount, date |-> date, cat |-> cat, lastID |-> 0]

\* res.status(status).json(...): msg names the message, count and data carry
\* what the body reports
Resp(op, key, status, msg, id, count, data) ==
    [kind |-> "resp", op |-> op, key |-> key, status |-> status, msg |-> msg,
     id |-> id, count |-> count, data |-> data]

\* the callback dereferences a row the query did not find: a TypeError is
\* thrown inside the sqlite3 callback and no response is written
Thrown(op, key, id) ==
    [kind |-> "throw", op |-> op, key |-> key, status |-> 0, msg |-> "TypeError",
     id |-> id, count |-> 0, data |-> <<>>]

\* the callback issued the next statement and wrote no response
Step(op, key) ==
    [kind |-> "step", op |-> op, key |-> key, status |-> 0, msg |-> "",
     id |-> 0, count |-> 0, data |-> <<>>]

KeyOf(h) == handles[h].key

\* a statement on a closed Database object fails (SQLITE_MISUSE) and so does
\* one on a file whose tables were never created (no such table)
\* the file the Database object was opened on
FileOf(h) == PathOf(KeyOf(h))

Usable(h) == ~handles[h].closed /\ store[FileOf(h)].schema

File(r) == store[FileOf(r.h)]

Finish(s) == reqs' = [reqs EXCEPT ![s] = Idle]
Goto(s, pc) == reqs' = [reqs EXCEPT ![s].pc = pc]

\* a step of a handler after its first: the registry is not touched
LedgerFrame == UNCHANGED <<tzWest, connections, handles, lastGet, lastClosed, now, backups>>

\* the handler answers without having called getConnection
Reject(op, status, msg) ==
    /\ ev' = Resp(op, <<0, 0>>, status, msg, 0, 0, <<>>)
    /\ UNCHANGED <<tzWest, store, connections, handles, reqs, lastGet, lastClosed,
                   now, backups>>

\* the handler calls getConnection and issues its first statement
Begin(s, key, ok, req) ==
    /\ key \in Keys
    /\ GetConnection(key, ok)
    /\ reqs' = [reqs EXCEPT ![s] = [req EXCEPT !.h = Got]]
    /\ lastClosed' = [lastClosed EXCEPT ![key] = NoHandle]
    /\ UNCHANGED <<tzWest, now, backups>>

\* the statement failed: the callback answers 500
Fail(s, msg) ==
    /\ ev' = Resp(reqs[s].op, KeyOf(reqs[s].h), 500, msg, reqs[s].id, 0, <<>>)
    /\ Finish(s)
    /\ UNCHANGED store

(***************************************************************************)
(* Category routes                                                         *)
(***************************************************************************)
\* the object the category routes put in data
CatView(id, row) ==
    [id |-> id, name |-> row.name, type |-> row.type, isDefault |-> row.isDefault]

\* GET /  (the rows are reported as a set: the model keeps no order of names)
CatListStart(s, user, qUserId, year, ok) ==
    /\ reqs[s] = Idle
    /\ Begin(s, <<GetUserId(user, qUserId), year>>, ok,
             Req("catList", "all", NoHandle, 0, "", "", NoParam, NoDate, 0))

CatListAll(s) ==
    LET r == reqs[s] IN
    /\ r.op = "catList" /\ r.pc = "all"
    /\ LedgerFrame
    /\ IF ~Usable(r.h) THEN Fail(s, "Failed to fetch categories")
       ELSE /\ ev' = Resp("catList", KeyOf(r.h), 200, "", 0, 0,
                          {CatView(i, File(r).cats[i]) : i \in DOMAIN File(r).cats})
            /\ Finish(s)
            /\ UNCHANGED store

\* a POST / that checks only that the fields are there
CatCreateStartUnchecked(s, user, qUserId, year, name, type, ok) ==
    /\ reqs[s] = Idle
    /\ IF name = "" \/ type = ""
       THEN Reject("catCreate", 400, "Name and type are required")
       ELSE Begin(s, <<GetUserId(user, qUserId), year>>, ok,
                  Req("catCreate", "insert", NoHandle, 0, name, type, NoParam, NoDate, 0))

\* POST /
CatCreateStart(s, user, qUserId, year, name, type, ok) ==
    /\ reqs[s] = Idle
    /\ IF name = "" \/ type = ""
       THEN Reject("catCreate", 400, "Name and type are required")
       ELSE IF type \notin Types
       THEN Reject("catCreate", 400, "Type must be income or expense")
       ELSE Begin(s, <<GetUserId(user, qUserId), year>>, ok,
                  Req("catCreate", "insert", NoHandle, 0, name, type, NoParam, NoDate, 0))

\* an INSERT that writes is_default = 1
InsertCategoryAsDefault(f, name, type) ==
    [f EXCEPT !.cats = PutRow(f.cats, f.catSeq + 1,
                              [name |-> name, type |-> type, isDefault |-> TRUE]),
              !.catSeq = f.catSeq + 1]

\* INSERT INTO categories (name, type, is_default) VALUES (?, ?, 0)
InsertCategory(f, name, type) ==
    [f EXCEPT !.cats = PutRow(f.cats, f.catSeq + 1,
                              [name |-> name, type |-> type, isDefault |-> FALSE]),
              !.catSeq = f.catSeq + 1]

CatCreateInsert(s) ==
    LET r == reqs[s] IN
    /\ r.op = "catCreate" /\ r.pc = "insert"
    /\ LedgerFrame
    /\ IF ~Usable(r.h) THEN Fail(s, "Failed to create category")
       ELSE /\ File(r).catSeq < NumDefaults + MaxUserCats
            /\ store' = [store EXCEPT ![FileOf(r.h)] = InsertCategory(@, r.name, r.type)]
            /\ reqs' = [reqs EXCEPT ![s].pc = "fetch", ![s].lastID = File(r).catSeq + 1]
            /\ ev' = Step("catCreate", KeyOf(r.h))

\* SELECT * FROM categories WHERE id = ?  of POST / and PUT /:id
CatFetch(s) ==
    LET r == reqs[s]
        id == IF r.op = "catCreate" THEN r.lastID ELSE r.id
        msg == IF r.op = "catCreate" THEN "Category created but failed to fetch"
               ELSE "Category updated but failed to fetch"
    IN
    /\ r.op \in {"catCreate", "catRename"} /\ r.pc = "fetch"
    /\ LedgerFrame
    /\ IF ~Usable(r.h) THEN Fail(s, msg)
       ELSE /\ ev' = IF HasRow(File(r).cats, id)
                     THEN Resp(r.op, KeyOf(r.h), IF r.op = "catCreate" THEN 201 ELSE 200,
                               "", id, 0, CatView(id, File(r).cats[id]))
                     ELSE Thrown(r.op, KeyOf(r.h), id)
            /\ Finish(s)
            /\ UNCHANGED store

\* PUT /:id
CatRenameStart(s, user, qUserId, year, id, name, ok) ==
    /\ reqs[s] = Idle
    /\ IF name = ""
       THEN Reject("catRename", 400, "Name is required")
       ELSE Begin(s, <<GetUserId(user, qUserId), year>>, ok,
                  Req("catRename", "update", NoHandle, id, name, "", NoParam, NoDate, 0))

\* UPDATE categories SET name = ?, updated_at = CURRENT_TIMESTAMP WHERE id = ?
CatRenameUpdate(s) ==
    LET r == reqs[s] IN
    /\ r.op = "catRename" /\ r.pc = "update"
    /\ LedgerFrame
    /\ IF ~Usable(r.h) THEN Fail(s, "Failed to update category")
       ELSE IF ~HasRow(File(r).cats, r.id)
       THEN /\ ev' = Resp("catRename", KeyOf(r.h), 404, "Category not found", r.id, 0, <<>>)
            /\ Finish(s)
            /\ UNCHANGED store
       ELSE /\ store' = [store EXCEPT ![FileOf(r.h)].cats[r.id].name = r.name]
            /\ Goto(s, "fetch")
            /\ ev' = Step("catRename", KeyOf(r.h))

\* DELETE /:id
CatDeleteStart(s, user, qUserId, year, id, ok) ==
    /\ reqs[s] = Idle
    /\ Begin(s, <<GetUserId(user, qUserId), year>>, ok,
             Req("catDelete", "check", NoHandle, id, "", "", NoParam, NoDate, 0))

\* a check that looks only for the row and not at is_default
CatDeleteCheckAnyRow(s) ==
    LET r == reqs[s] IN
    /\ r.op = "catDelete" /\ r.pc = "check"
    /\ LedgerFrame
    /\ UNCHANGED store
    /\ IF ~Usable(r.h) THEN Fail(s, "Failed to check category")
       ELSE IF ~HasRow(File(r).cats, r.id)
       THEN /\ ev' = Resp("catDelete", KeyOf(r.h), 404, "Category not found", r.id, 0, <<>>)
            /\ Finish(s)
       ELSE /\ Goto(s, "count")
            /\ ev' = Step("catDelete", KeyOf(r.h))

\* SELECT is_default FROM categories WHERE id = ?
CatDeleteCheck(s) ==
    LET r == reqs[s] IN
    /\ r.op = "catDelete" /\ r.pc = "check"
    /\ LedgerFrame
    /\ UNCHANGED store
    /\ IF ~Usable(r.h) THEN Fail(s, "Failed to check category")
       ELSE IF ~HasRow(File(r).cats, r.id)
       THEN /\ ev' = Resp("catDelete", KeyOf(r.h), 404, "Category not found", r.id, 0, <<>>)
            /\ Finish(s)
       ELSE IF File(r).cats[r.id].isDefault
       THEN /\ ev' = Resp("catDelete", KeyOf(r.h), 400, "Cannot delete default categories",
                          r.id, 0, <<>>)
            /\ Finish(s)
       ELSE /\ Goto(s, "count")
            /\ ev' = Step("catDelete", KeyOf(r.h))

\* a COUNT(*) without the WHERE clause
CountAllTransactions(f, id) == Cardinality(DOMAIN f.txs)

\* SELECT COUNT(*) as count FROM transactions WHERE category_id = ?
CountReferences(f, id) ==
    Cardinality({t \in DOMAIN f.txs : f.txs[t].categoryId = id})

CatDeleteCount(s) ==
    LET r == reqs[s]
        count == CountReferences(File(r), r.id)
    IN
    /\ r.op = "catDelete" /\ r.pc = "count"
    /\ LedgerFrame
    /\ UNCHANGED store
    /\ IF ~Usable(r.h) THEN Fail(s, "Failed to check category usage")
       ELSE IF count > 0
       THEN /\ ev' = Resp("catDelete", KeyOf(r.h), 400, "Cannot delete category. It is used",
                          r.id, count, <<>>)
            /\ Finish(s)
       ELSE /\ Goto(s, "delete")
            /\ ev' = Step("catDelete", KeyOf(r.h))

\* DELETE FROM categories WHERE id = ?
CatDeleteRun(s) ==
    LET r == reqs[s] IN
    /\ r.op = "catDelete" /\ r.pc = "delete"
    /\ LedgerFrame
    /\ IF ~Usable(r.h) THEN Fail(s, "Failed to delete category")
       ELSE /\ store' = [store EXCEPT ![FileOf(r.h)].cats = DropRow(@, r.id)]
            /\ ev' = Resp("catDelete", KeyOf(r.h), 200, "Category deleted successfully",
                          r.id, 0, <<>>)
            /\ Finish(s)

(***************************************************************************)
(* Transaction routes                                                      *)
(***************************************************************************)
\* the joined row: LEFT JOIN leaves category_name null when the category of
\* the transaction is not in the table
TxView(f, id) ==
    LET t == f.txs[id] IN
    [id |-> id, amount |-> ParseFloat(t.amount), date |-> t.date, type |-> t.type,
     categoryId |-> t.categoryId,
     categoryName |-> IF HasRow(f.cats, t.categoryId)
                      THEN f.cats[t.categoryId].name ELSE "null"]

\* POST /
TxCreateStart(s, user, amount, date, type, cat, ok) ==
    /\ reqs[s] = Idle
    /\ IF Falsy(amount) \/ date.k = "absent" \/ type = "" \/ cat = 0
       THEN Reject("txCreate", 400, "Amount, date, type, and category are required")
       ELSE IF type \notin Types
       THEN Reject("txCreate", 400, "Type must be income or expense")
       ELSE IF NotPositive(amount)
       THEN Reject("txCreate", 400, "Amount must be greater than 0")
       ELSE Begin(s, <<user.id, GetFullYear(date, tzWest)>>, ok,
                  Req("txCreate", "verify", NoHandle, 0, "", type, amount, date, cat))

\* PUT /:id  (the type is not checked against income and expense here)
TxUpdateStart(s, user, id, amount, date, type, cat, ok) ==
    /\ reqs[s] = Idle
    /\ IF Falsy(amount) \/ date.k = "absent" \/ type = "" \/ cat = 0
       THEN Reject("txUpdate", 400, "Amount, date, type, and category are required")
       ELSE IF NotPositive(amount)
       THEN Reject("txUpdate", 400, "Amount must be greater than 0")
       ELSE Begin(s, <<user.id, GetFullYear(date, tzWest)>>, ok,
                  Req("txUpdate", "verify", NoHandle, id, "", type, amount, date, cat))

\* SELECT id FROM categories WHERE id = ?  of POST / and PUT /:id
TxVerify(s) ==
    LET r == reqs[s] IN
    /\ r.op \in {"txCreate", "txUpdate"} /\ r.pc = "verify"
    /\ LedgerFrame
    /\ UNCHANGED store
    /\ IF ~Usable(r.h) THEN Fail(s, "Failed to verify category")
       ELSE IF ~HasRow(File(r).cats, r.cat)
       THEN /\ ev' = Resp(r.op, KeyOf(r.h), 400, "Invalid category", r.id, 0, <<>>)
            /\ Finish(s)
       ELSE /\ Goto(s, IF r.op = "txCreate" THEN "insert" ELSE "update")
            /\ ev' = Step(r.op, KeyOf(r.h))

\* the row the statements of POST / and PUT /:id write
TxRow(r) ==
    [amount |-> StoredAmount(r.amount), date |-> r.date, type |-> r.type,
     categoryId |-> r.cat]

\* a table without the CHECK constraint
AnyRowAccepted(row) == TRUE

\* the constraints of the transactions table the engine enforces on a written
\* row: CHECK (type IN ('income', 'expense')).  The FOREIGN KEY clause is not
\* enforced: no connection issues PRAGMA foreign_keys = ON
RowAccepted(row) == row.type \in Types

\* INSERT INTO transactions (amount, date, type, category_id, description)
TxCreateInsert(s) ==
    LET r == reqs[s] IN
    /\ r.op = "txCreate" /\ r.pc = "insert"
    /\ LedgerFrame
    /\ IF ~Usable(r.h) \/ ~RowAccepted(TxRow(r))
       THEN Fail(s, "Failed to create transaction")
       ELSE /\ File(r).txSeq < MaxTxs
            /\ store' = [store EXCEPT ![FileOf(r.h)] =
                           [@ EXCEPT !.txs = PutRow(@, File(r).txSeq + 1, TxRow(r)),
                                     !.txSeq = @ + 1]]
            /\ reqs' = [reqs EXCEPT ![s].pc = "fetch", ![s].lastID = File(r).txSeq + 1]
            /\ ev' = Step("txCreate", KeyOf(r.h))

\* UPDATE transactions SET amount = ?, date = ?, type = ?, category_id = ?,
\* description = ?, updated_at = CURRENT_TIMESTAMP WHERE id = ?
TxUpdateRun(s) ==
    LET r == reqs[s] IN
    /\ r.op = "txUpdate" /\ r.pc = "update"
    /\ LedgerFrame
    /\ IF ~Usable(r.h) \/ (HasRow(File(r).txs, r.id) /\ ~RowAccepted(TxRow(r)))
       THEN Fail(s, "Failed to update transaction")
       ELSE IF ~HasRow(File(r).txs, r.id)
       THEN /\ ev' = Resp("txUpdate", KeyOf(r.h), 404, "Transaction not found", r.id, 0, <<>>)
            /\ Finish(s)
            /\ UNCHANGED store
       ELSE /\ store' = [store EXCEPT ![FileOf(r.h)].txs[r.id] = TxRow(r)]
            /\ Goto(s, "fetch")
            /\ ev' = Step("txUpdate", KeyOf(r.h))

\* SELECT t.*, c.name as category_name ... WHERE t.id = ?  of POST / and PUT /:id
TxFetch(s) ==
    LET r == reqs[s]
        id == IF r.op = "txCreate" THEN r.lastID ELSE r.id
        msg == IF r.op = "txCreate" THEN "Transaction created but failed to fetch"
               ELSE "Transaction updated but failed to fetch"
    IN
    /\ r.op \in {"txCreate", "txUpdate"} /\ r.pc = "fetch"
    /\ LedgerFrame
    /\ IF ~Usable(r.h) THEN Fail(s, msg)
       ELSE /\ ev' = IF HasRow(File(r).txs, id)
                     THEN Resp(r.op, KeyOf(r.h), IF r.op = "txCreate" THEN 201 ELSE 200,
                               "", id, 0, TxView(File(r), id))
                     ELSE Thrown(r.op, KeyOf(r.h), id)
            /\ Finish(s)
            /\ UNCHANGED store

\* DELETE /:id
TxDeleteStart(s, user, year, id, ok) ==
    /\ reqs[s] = Idle
    /\ Begin(s, <<user.id, year>>, ok,
             Req("txDelete", "delete", NoHandle, id, "", "", NoParam, NoDate, 0))

\* DELETE FROM transactions WHERE id = ?
TxDeleteRun(s) ==
    LET r == reqs[s] IN
    /\ r.op = "txDelete" /\ r.pc = "delete"
    /\ LedgerFrame
    /\ IF ~Usable(r.h) THEN Fail(s, "Failed to delete transaction")
       ELSE IF ~HasRow(File(r).txs, r.id)
       THEN /\ ev' = Resp("txDelete", KeyOf(r.h), 404, "Transaction not found", r.id, 0, <<>>)
            /\ Finish(s)
            /\ UNCHANGED store
       ELSE /\ store' = [store EXCEPT ![FileOf(r.h)].txs = DropRow(@, r.id)]
            /\ ev' = Resp("txDelete", KeyOf(r.h), 200, "Transaction deleted successfully",
                          r.id, 0, <<>>)
            /\ Finish(s)

(***************************************************************************)
(* GET /: the transaction list, a count and then the page                  *)
(***************************************************************************)
\* the page size used when the query names none
DefaultLimit == 50

\* parseInt(x) || dflt : an absent value, text without digits at its front
\* and 0 all give dflt
IntOr(x, dflt) ==
    IF x.t = "absent" THEN dflt
    ELSE LET p == ParseFloat(x) IN IF p.nan \/ p.v = 0 THEN dflt ELSE p.v

\* a page that starts one page too far
OffsetFromPage(page, limit) == page * limit

\* const offset = (page - 1) * limit
Offset(page, limit) == (page - 1) * limit

\* a page count that rounds down
TotalPagesFloor(count, limit) == count \div limit

\* Math.ceil(totalCount / limit), limit not 0
TotalPages(count, limit) ==
    IF limit > 0 THEN (count + limit - 1) \div limit
    ELSE 0 - (count \div (0 - limit))

\* the place of a stored date in the order of the date texts: YYYY-MM-DD
\* texts order as their days do, text that starts with a letter comes after
\* every text that starts with a digit
DateRank(date) == IF date.k = "iso" THEN date.y * 1000 + date.d ELSE 10000000

\* ORDER BY t.date DESC, t.id DESC : does row a come before row b
ComesBefore(txs, a, b) ==
    \/ DateRank(txs[a].date) > DateRank(txs[b].date)
    \/ DateRank(txs[a].date) = DateRank(txs[b].date) /\ a > b

RECURSIVE OrderedIds(_, _)
OrderedIds(txs, ids) ==
    IF ids = {} THEN <<>>
    ELSE LET first == CHOOSE t \in ids : \A u \in ids \ {t} : ComesBefore(txs, t, u)
         IN  <<first>> \o OrderedIds(txs, ids \ {first})

\* LIMIT ? OFFSET ? : a negative LIMIT is no limit, a negative OFFSET is 0
PageRows(f, limit, offset) ==
    LET all == OrderedIds(f.txs, DOMAIN f.txs)
        from == Max(offset, 0) + 1
        to == IF limit < 0 THEN Len(all) ELSE Max(offset, 0) + limit
        ids == SubSeq(all, from, IF to < Len(all) THEN to ELSE Len(all))
    IN  [i \in 1..Len(ids) |-> TxView(f, ids[i])]

TxListStart(s, user, year, qPage, qLimit, ok) ==
    /\ reqs[s] = Idle
    /\ Begin(s, <<user.id, year>>, ok,
             [op |-> "txList", pc |-> "count", h |-> NoHandle, id |-> 0,
              page |-> IntOr(qPage, 1), limit |-> IntOr(qLimit, DefaultLimit),
              totalCount |-> 0])

\* SELECT COUNT( * ) as total FROM transactions
TxListCount(s) ==
    LET r == reqs[s] IN
    /\ r.op = "txList" /\ r.pc = "count"
    /\ LedgerFrame
    /\ UNCHANGED store
    /\ IF ~Usable(r.h) THEN Fail(s, "Failed to count transactions")
       ELSE /\ reqs' = [reqs EXCEPT ![s].pc = "rows",
                                    ![s].totalCount = Cardinality(DOMAIN File(r).txs)]
            /\ ev' = Step("txList", KeyOf(r.h))

\* SELECT t.*, ... ORDER BY t.date DESC, t.id DESC LIMIT ? OFFSET ?
TxListRows(s) ==
    LET r == reqs[s]
        totalPages == TotalPages(r.totalCount, r.limit)
    IN
    /\ r.op = "txList" /\ r.pc = "rows"
    /\ LedgerFrame
    /\ UNCHANGED store
    /\ IF ~Usable(r.h) THEN Fail(s, "Failed to fetch transactions")
       ELSE /\ ev' = Resp("txList", KeyOf(r.h), 200, "", 0, r.totalCount,
                          [rows |-> PageRows(File(r), r.limit, Offset(r.page, r.limit)),
                           currentPage |-> r.page,
                           totalPages |-> totalPages,
                           totalCount |-> r.totalCount,
                           hasNextPage |-> r.page < totalPages,
                           hasPrevPage |-> r.page > 1])
            /\ Finish(s)

(***************************************************************************)
(* GET /stats: four statements, each issued by the callback of the one     *)
(* before; the callbacks keep the figures read so far in results           *)
(***************************************************************************)
\* the number an aggregate of SQLite takes a stored amount for: text counts
\* by its numeric prefix, 0 when it has none
SqlNumber(a) ==
    IF a.t = "num" THEN a.v
    ELSE LET p == ParseFloat(a) IN IF p.nan THEN 0 ELSE p.v

RECURSIVE SumAmounts(_, _)
SumAmounts(txs, ids) ==
    IF ids = {} THEN 0
    ELSE LET t == CHOOSE x \in ids : TRUE
         IN  SqlNumber(txs[t].amount) + SumAmounts(txs, ids \ {t})

\* SELECT COALESCE(SUM(amount), 0) as total FROM transactions WHERE type = ?
TotalOfType(txs, type) ==
    SumAmounts(txs, {t \in DOMAIN txs : txs[t].type = type})

\* SELECT COUNT(*) as count FROM transactions
CountTransactions(txs) == Cardinality(DOMAIN txs)

Leap(y) == (y % 4 = 0 /\ y % 100 # 0) \/ y % 400 = 0

\* day of the year on which each month ends
MonthEnds(y) ==
    LET l == IF Leap(y) THEN 1 ELSE 0 IN
    <<31, 59 + l, 90 + l, 120 + l, 151 + l, 181 + l, 212 + l, 243 + l,
      273 + l, 304 + l, 334 + l, 365 + l>>

\* strftime('%Y-%m', date) of a date string: <<year, month>>
MonthOf(date) ==
    <<date.y, CHOOSE m \in 1..12 :
                 /\ date.d <= MonthEnds(date.y)[m]
                 /\ (m = 1 \/ date.d > MonthEnds(date.y)[m - 1])>>

\* the rows WHERE strftime('%Y', date) = ? keeps: strftime is NULL for text
\* that is not a date
InYear(txs, year) ==
    {t \in DOMAIN txs : txs[t].date.k = "iso" /\ txs[t].date.y = year}

\* the monthlyStats object built from the rows grouped by month and type
MonthlyStats(txs, year) ==
    LET rows == InYear(txs, year)
        of(m, type) == {t \in rows : MonthOf(txs[t].date) = m /\ txs[t].type = type}
    IN  [m \in {MonthOf(txs[t].date) : t \in rows} |->
            [income |-> SumAmounts(txs, of(m, "income")),
             expenses |-> SumAmounts(txs, of(m, "expense"))]]

\* the data object of the response
StatsData(totalIncome, totalExpenses, transactionCount, monthlyStats) ==
    [totalIncome |-> totalIncome, totalExpenses |-> totalExpenses,
     transactionCount |-> transactionCount,
     netBalance |-> totalIncome - totalExpenses,
     monthlyStats |-> monthlyStats]

StatsStart(s, user, year, ok) ==
    /\ reqs[s] = Idle
    /\ Begin(s, <<user.id, year>>, ok,
             [op |-> "stats", pc |-> "income", h |-> NoHandle, id |-> 0,
              year |-> year, totalIncome |-> 0, totalExpenses |-> 0,
              transactionCount |-> 0])

StatsStep(s, pc) ==
    /\ reqs[s].op = "stats" /\ reqs[s].pc = pc
    /\ LedgerFrame
    /\ UNCHANGED store

StatsIncome(s) ==
    LET r == reqs[s] IN
    /\ StatsStep(s, "income")
    /\ IF ~Usable(r.h) THEN Fail(s, "Failed to get statistics")
       ELSE /\ reqs' = [reqs EXCEPT ![s].pc = "expenses",
                                    ![s].totalIncome = TotalOfType(File(r).txs, "income")]
            /\ ev' = Step("stats", KeyOf(r.h))

StatsExpenses(s) ==
    LET r == reqs[s] IN
    /\ StatsStep(s, "expenses")
    /\ IF ~Usable(r.h) THEN Fail(s, "Failed to get statistics")
       ELSE /\ reqs' = [reqs EXCEPT ![s].pc = "count",
                                    ![s].totalExpenses = TotalOfType(File(r).txs, "expense")]
            /\ ev' = Step("stats", KeyOf(r.h))

StatsCount(s) ==
    LET r == reqs[s] IN
    /\ StatsStep(s, "count")
    /\ IF ~Usable(r.h) THEN Fail(s, "Failed to get statistics")
       ELSE /\ reqs' = [reqs EXCEPT ![s].pc = "monthly",
                                    ![s].transactionCount = CountTransactions(File(r).txs)]
            /\ ev' = Step("stats", KeyOf(r.h))

StatsMonthly(s) ==
    LET r == reqs[s] IN
    /\ StatsStep(s, "monthly")
    /\ IF ~Usable(r.h) THEN Fail(s, "Failed to get statistics")
       ELSE /\ ev' = Resp("stats", KeyOf(r.h), 200, "", 0, 0,
                          StatsData(r.totalIncome, r.totalExpenses, r.transactionCount,
                                    MonthlyStats(File(r).txs, r.year)))
            /\ Finish(s)

(***************************************************************************)
(* Direct calls of the DatabaseManager                                     *)
(***************************************************************************)
GetConnectionCall(key, ok) ==
    /\ GetConnection(key, ok)
    /\ lastClosed' = [lastClosed EXCEPT ![key] = NoHandle]
    /\ UNCHANGED <<tzWest, reqs, now, backups>>

CloseConnectionCall(key) ==
    /\ CloseConnection(key)
    /\ lastGet' = [lastGet EXCEPT ![key] = NoHandle]
    /\ lastClosed' = [lastClosed EXCEPT ![key] =
                        IF Cached(key) THEN connections[key] ELSE @]
    /\ ev' = [kind |-> "close", key |-> key, h |-> connections[key],
              opened |-> FALSE, bootOk |-> TRUE, thrown |-> FALSE]
    /\ UNCHANGED <<tzWest, store, reqs, now, backups>>

CloseAllConnectionsCall ==
    /\ \E k \in Keys : Cached(k)
    /\ CloseAllConnections
    /\ lastGet' = [k \in Keys |-> NoHandle]
    /\ ev' = [kind |-> "closeAll", key |-> <<0, 0>>, h |-> NoHandle,
              opened |-> FALSE, bootOk |-> TRUE, thrown |-> FALSE]
    /\ UNCHANGED <<tzWest, store, reqs, lastClosed, now, backups>>

\* POST /api/backup/:year
BackupCall(user, year) ==
    /\ BackupDatabase(<<user.id, year>>)
    /\ UNCHANGED <<tzWest, store, connections, handles, reqs, lastGet, lastClosed, now>>

\* getUserYears(userId), as GET /api/years calls it
GetUserYearsCall(user) ==
    /\ ev' = [kind |-> "years", tenant |-> user.id, years |-> GetUserYears(user.id)]
    /\ UNCHANGED <<tzWest, store, connections, handles, reqs, lastGet, lastClosed,
                   now, backups>>

\* a millisecond passes
Tick ==
    /\ now < MaxClock
    /\ now' = now + 1
    /\ ev' = [kind |-> "tick"]
    /\ UNCHANGED <<tzWest, store, connections, handles, reqs, lastGet, lastClosed,
                   backups>>

(***************************************************************************)
(* Initial state: no file on disk, an empty registry, no request           *)
(***************************************************************************)
Init ==
    /\ tzWest \in BOOLEAN
    /\ store = [k \in Keys |-> NoFile]
    /\ connections = [k \in Keys |-> NoHandle]
    /\ handles = <<>>
    /\ reqs = [s \in Slots |-> Idle]
    /\ ev = NoEvent
    /\ lastGet = [k \in Keys |-> NoHandle]
    /\ lastClosed = [k \in Keys |-> NoHandle]
    /\ now = 0
    /\ backups = <<>>

\* the same with the process in a time zone that is not west of UTC
InitUTC == Init /\ ~tzWest

(***************************************************************************)
(* Inputs                                                                  *)
(***************************************************************************)
Alice == [id |-> 1, role |-> "user"]

UserCatIds == (NumDefaults + 1)..(NumDefaults + MaxUserCats)
TxIds == 1..MaxTxs

\* a default category and the categories the user can create
CatIdInputs == {9} \cup UserCatIds

\* the categories the transactions of the model name: a default category and
\* the first category a user creates
RefCats == {9, NumDefaults + 1}

\* the ids a rename names: a default category and an id no row has
RenameIds == {9, 99}

\* a date in the middle of 2024: its year is 2024 in every time zone
MidYear == IsoDate(2024, 2)

\* every statement step of the handlers that write and of the category list
Steps ==
    \E s \in Slots :
       \/ CatListAll(s)
       \/ CatCreateInsert(s)
       \/ CatFetch(s)
       \/ CatRenameUpdate(s)
       \/ CatDeleteCheck(s)
       \/ CatDeleteCount(s)
       \/ CatDeleteRun(s)
       \/ TxVerify(s)
       \/ TxCreateInsert(s)
       \/ TxUpdateRun(s)
       \/ TxFetch(s)
       \/ TxDeleteRun(s)

\* the requests of one user on the shard of 2024, arriving in slot s
LedgerStart(s, ok) ==
    \/ CatListStart(s, Alice, NoParam, 2024, ok)
    \/ \E name \in {"", "A"}, type \in {"", "income", "bogus"} :
          CatCreateStart(s, Alice, NoParam, 2024, name, type, ok)
    \/ \E id \in RenameIds, name \in {"", "B"} :
          CatRenameStart(s, Alice, NoParam, 2024, id, name, ok)
    \/ \E id \in CatIdInputs :
          CatDeleteStart(s, Alice, NoParam, 2024, id, ok)
    \/ \E amount \in {Num(0), Num(100)}, cat \in RefCats :
          TxCreateStart(s, Alice, amount, MidYear, "expense", cat, ok)
    \/ \E id \in TxIds, cat \in RefCats :
          TxUpdateStart(s, Alice, id, Num(100), MidYear, "expense", cat, ok)
    \/ \E id \in TxIds :
          TxDeleteStart(s, Alice, 2024, id, ok)

(***************************************************************************)
(* Spec: concurrent requests on one shard whose bootstrap succeeds         *)
(***************************************************************************)
Next ==
    \/ \E s \in Slots : LedgerStart(s, TRUE)
    \/ Steps

Spec == InitUTC /\ [][Next]_vars

(***************************************************************************)
(* SpecReopen: one request at a time on one shard that is closed and       *)
(* opened again; the schema script may fail                                *)
(***************************************************************************)
ReopenNext ==
    \/ \E ok \in BOOLEAN : LedgerStart(1, ok)
    \/ Steps
    \/ CloseConnectionCall(<<1, 2024>>)

SpecReopen == InitUTC /\ [][ReopenNext]_vars

(***************************************************************************)
(* SpecRegistry: direct calls of the DatabaseManager on the shards of two  *)
(* tenants, with one request at a time writing rows                        *)
(***************************************************************************)
RegistryKeys == {<<1, 2024>>, <<2, 2024>>}

RegistryNext ==
    \/ \E key \in RegistryKeys, ok \in BOOLEAN : GetConnectionCall(key, ok)
    \/ \E key \in RegistryKeys : CloseConnectionCall(key)
    \/ CloseAllConnectionsCall
    \/ \E ok \in BOOLEAN : CatCreateStart(1, Alice, NoParam, 2024, "A", "income", ok)
    \/ \E ok \in BOOLEAN : TxCreateStart(1, Alice, Num(100), MidYear, "expense", 9, ok)
    \/ CatCreateInsert(1)
    \/ CatFetch(1)
    \/ TxVerify(1)
    \/ TxCreateInsert(1)
    \/ TxFetch(1)

SpecRegistry == InitUTC /\ [][RegistryNext]_vars

(***************************************************************************)
(* SpecAmounts: one request at a time, the amounts a request body can      *)
(* carry: numbers and strings                                              *)
(***************************************************************************)
AmountInputs ==
    {NoParam, Num(0), Num(0 - 5), Num(100),
     Str(<<>>), Str(<<"7">>), Str(<<"-", "3">>), Str(<<"a", "b", "c">>),
     Str(<<"5", "a", "b", "c">>)}

AmountsNext ==
    \/ \E amount \in AmountInputs, type \in {"", "income", "bogus"}, cat \in {0, 9} :
          TxCreateStart(1, Alice, amount, MidYear, type, cat, TRUE)
    \/ \E id \in TxIds, amount \in AmountInputs, type \in {"income", "bogus"} :
          TxUpdateStart(1, Alice, id, amount, MidYear, type, 9, TRUE)
    \/ TxVerify(1)
    \/ TxCreateInsert(1)
    \/ TxUpdateRun(1)
    \/ TxFetch(1)

SpecAmounts == InitUTC /\ [][AmountsNext]_vars

(***************************************************************************)
(* SpecDates: one request at a time, the dates a request body can carry,   *)
(* in a process west of UTC or not                                         *)
(***************************************************************************)
DateInputs == {NoDate, IsoDate(2024, 1), IsoDate(2024, 2), IsoDate(2023, 2), TextDate}

DatesNext ==
    \/ \E date \in DateInputs :
          TxCreateStart(1, Alice, Num(100), date, "income", 9, TRUE)
    \/ \E id \in TxIds, date \in DateInputs :
          TxUpdateStart(1, Alice, id, Num(100), date, "income", 9, TRUE)
    \/ TxVerify(1)
    \/ TxCreateInsert(1)
    \/ TxUpdateRun(1)
    \/ TxFetch(1)

SpecDates == Init /\ [][DatesNext]_vars

(***************************************************************************)
(* SpecShards: one request at a time on the shards of two years of one     *)
(* tenant, with dates on and off the first day of a year, in a process     *)
(* west of UTC or not                                                      *)
(***************************************************************************)
ShardDates == {IsoDate(2024, 1), IsoDate(2024, 2), IsoDate(2023, 2)}

ShardsNext ==
    \/ \E year \in Years :
          CatCreateStart(1, Alice, NoParam, year, "A", "income", TRUE)
    \/ \E date \in ShardDates, cat \in RefCats :
          TxCreateStart(1, Alice, Num(100), date, "expense", cat, TRUE)
    \/ \E id \in TxIds, date \in ShardDates, cat \in RefCats :
          TxUpdateStart(1, Alice, id, Num(100), date, "income", cat, TRUE)
    \/ CatCreateInsert(1)
    \/ CatFetch(1)
    \/ TxVerify(1)
    \/ TxCreateInsert(1)
    \/ TxUpdateRun(1)
    \/ TxFetch(1)

SpecShards == Init /\ [][ShardsNext]_vars

(***************************************************************************)
(* SpecStats: a stats request in slot 1 while the requests of slot 2       *)
(* create, update and delete transactions of the same shard                *)
(***************************************************************************)
\* January 2nd and March 15th of 2024
StatsDates == {IsoDate(2024, 2), IsoDate(2024, 75)}

StatsNext ==
    \/ StatsStart(1, Alice, 2024, TRUE)
    \/ StatsIncome(1)
    \/ StatsExpenses(1)
    \/ StatsCount(1)
    \/ StatsMonthly(1)
    \/ \E date \in StatsDates, type \in Types :
          TxCreateStart(2, Alice, Num(100), date, type, 9, TRUE)
    \/ \E id \in TxIds, date \in StatsDates, type \in Types :
          TxUpdateStart(2, Alice, id, Num(100), date, type, 9, TRUE)
    \/ \E id \in TxIds : TxDeleteStart(2, Alice, 2024, id, TRUE)
    \/ TxVerify(2)
    \/ TxCreateInsert(2)
    \/ TxUpdateRun(2)
    \/ TxFetch(2)
    \/ TxDeleteRun(2)

SpecStats == InitUTC /\ [][StatsNext]_vars

(***************************************************************************)
(* SpecTenants: the requests of a user of role user in slot 1 and of a     *)
(* superadmin in slot 2, with the userId and year the query can carry      *)
(***************************************************************************)
Admin == [id |-> 2, role |-> "superadmin"]

\* req.query.userId: absent, "1" or "2"
Overrides == {NoParam, Str(<<"1">>), Str(<<"2">>)}

\* req.query.year: a year, or text that leads to the file of another tenant
YearParams == {2024} \cup TraversalYears

\* one request at a time
TenantsNext ==
    \/ /\ reqs[2] = Idle
       /\ \/ \E q \in Overrides, year \in YearParams :
                \/ CatListStart(1, Alice, q, year, TRUE)
                \/ CatCreateStart(1, Alice, q, year, "A", "income", TRUE)
                \/ CatRenameStart(1, Alice, q, year, 9, "B", TRUE)
                \/ CatDeleteStart(1, Alice, q, year, NumDefaults + 1, TRUE)
          \/ \E year \in YearParams : TxDeleteStart(1, Alice, year, 1, TRUE)
          \/ TxCreateStart(1, Alice, Num(100), MidYear, "expense", 9, TRUE)
    \/ /\ reqs[1] = Idle
       /\ \/ \E q \in Overrides :
                \/ CatListStart(2, Admin, q, 2024, TRUE)
                \/ CatCreateStart(2, Admin, q, 2024, "A", "income", TRUE)
          \/ TxCreateStart(2, Admin, Num(100), MidYear, "expense", 9, TRUE)
    \/ \E s \in {1, 2} :
          \/ CatListAll(s)
          \/ CatCreateInsert(s)
          \/ CatFetch(s)
          \/ CatRenameUpdate(s)
          \/ CatDeleteCheck(s)
          \/ CatDeleteCount(s)
          \/ CatDeleteRun(s)
          \/ TxVerify(s)
          \/ TxCreateInsert(s)
          \/ TxFetch(s)
          \/ TxDeleteRun(s)

SpecTenants == InitUTC /\ [][TenantsNext]_vars

(***************************************************************************)
(* SpecStatsSeq: one request at a time on one shard: transaction creates   *)
(* with amounts sent as numbers or as text, deletes, and stats             *)
(***************************************************************************)
StatsAmounts == {Num(500), Num(200), Str(<<"a", "b", "c">>)}

StatsSeqNext ==
    \/ StatsStart(1, Alice, 2024, TRUE)
    \/ StatsIncome(1)
    \/ StatsExpenses(1)
    \/ StatsCount(1)
    \/ StatsMonthly(1)
    \/ \E amount \in StatsAmounts, date \in StatsDates, type \in Types :
          TxCreateStart(1, Alice, amount, date, type, 9, TRUE)
    \/ \E id \in TxIds : TxDeleteStart(1, Alice, 2024, id, TRUE)
    \/ TxVerify(1)
    \/ TxCreateInsert(1)
    \/ TxFetch(1)
    \/ TxDeleteRun(1)

SpecStatsSeq == InitUTC /\ [][StatsSeqNext]_vars

(***************************************************************************)
(* SpecList: one request at a time on one shard: transaction creates and   *)
(* deletes, and lists with the page and limit the query can carry          *)
(***************************************************************************)
PageParams == {NoParam, Str(<<"1">>), Str(<<"2">>), Str(<<"3">>)}
LimitParams == {NoParam, Str(<<"1">>), Str(<<"2">>)}

ListNext ==
    \/ \E qPage \in PageParams, qLimit \in LimitParams :
          TxListStart(1, Alice, 2024, qPage, qLimit, TRUE)
    \/ TxListCount(1)
    \/ TxListRows(1)
    \/ \E date \in StatsDates :
          TxCreateStart(1, Alice, Num(100), date, "expense", 9, TRUE)
    \/ \E id \in TxIds : TxDeleteStart(1, Alice, 2024, id, TRUE)
    \/ TxVerify(1)
    \/ TxCreateInsert(1)
    \/ TxFetch(1)
    \/ TxDeleteRun(1)

SpecList == InitUTC /\ [][ListNext]_vars

(***************************************************************************)
(* SpecBackup: two users, one request at a time: category lists that       *)
(* create shards, transaction creates, backups, getUserYears, and the      *)
(* clock                                                                   *)
(***************************************************************************)
Bob == [id |-> 2, role |-> "user"]

\* req.query.year of the lists of the first user
ListYears == {2024, DbYear(2024)}

BackupNext ==
    \/ \E year \in ListYears : CatListStart(1, Alice, NoParam, year, TRUE)
    \/ CatListStart(1, Bob, NoParam, 2023, TRUE)
    \/ CatListAll(1)
    \/ TxCreateStart(1, Alice, Num(100), MidYear, "expense", 9, TRUE)
    \/ TxVerify(1)
    \/ TxCreateInsert(1)
    \/ TxFetch(1)
    \/ \E year \in {2023, 2024} : BackupCall(Alice, year)
    \/ \E user \in {Alice, Bob} : GetUserYearsCall(user)
    \/ Tick

SpecBackup == InitUTC /\ [][BackupNext]_vars

(***************************************************************************)
(* Properties                                                              *)
(***************************************************************************)
\* C1: in every reachable state, under any interleaving of the statements of
\* concurrent category delete, transaction create and transaction update
\* requests, the categoryId of every stored transaction is the id of a
\* category stored in the same shard.
C1_ReferentialIntegrity ==
    \A k \in Keys :
       \A t \in DOMAIN store[k].txs :
          HasRow(store[k].cats, store[k].txs[t].categoryId)

\* the open (not closed) Database objects of a shard
OpenHandles(k) == {h \in DOMAIN handles : handles[h].key = k /\ ~handles[h].closed}

\* C2: after any sequence of getConnection, closeConnection and
\* closeAllConnections calls there is at most one open handle per shard key
\* and it is the one the registry holds: no second connection to a shard is
\* opened while one for the same key is cached.
C2_OneHandlePerKey ==
    \A k \in Keys :
       /\ Cardinality(OpenHandles(k)) <= 1
       /\ OpenHandles(k) = IF Cached(k) THEN {connections[k]} ELSE {}

\* C2 witness: a shard was opened, closed and opened again while the shard of
\* another tenant stays cached
C2_Witness ==
    /\ Cached(<<1, 2024>>) /\ Cached(<<2, 2024>>)
    /\ \E h \in DOMAIN handles : handles[h].closed

\* C3: two getConnection(t, y) calls with no closeConnection(t, y) or
\* closeAllConnections between them return the same handle; the second call
\* constructs no Database object and does not run the schema script.
C3_SameHandleTwice ==
    [][\A k \in Keys :
          (ev'.kind = "get" /\ ev'.key = k /\ lastGet[k] # NoHandle)
             => /\ ev'.h = lastGet[k]
                /\ ~ev'.opened
                /\ handles' = handles
                /\ store' = store]_vars

\* C3 witness: a getConnection call has returned the cached handle of a shard
\* that holds rows
C3_Witness ==
    /\ ev.kind = "get" /\ ~ev.opened
    /\ store[ev.key].schema
    /\ lastGet[ev.key] = connections[ev.key]

SchemaPresent(f) ==
    /\ f.schema
    /\ \A i \in DefaultIds : HasRow(f.cats, i) /\ f.cats[i].isDefault

\* C4: after closeConnection(t, y) the next getConnection(t, y) returns a
\* handle different from the closed one, the rows persisted before the close
\* are still there, and every operation on the new handle finds both tables
\* and the default categories.
C4_ReopenSeesSchema ==
    /\ [](\A h \in DOMAIN handles :
             (handles[h].reopen /\ connections[handles[h].key] = h)
                => SchemaPresent(store[handles[h].key]))
    /\ [][\A k \in Keys :
            (ev'.kind = "get" /\ ev'.key = k /\ lastClosed[k] # NoHandle)
               => /\ ev'.h # lastClosed[k]
                  /\ SchemaPresent(store'[k])
                  /\ store'[k].txs = store[k].txs
                  /\ \A i \in DOMAIN store[k].cats :
                        HasRow(store'[k].cats, i) /\ store'[k].cats[i] = store[k].cats[i]]_vars

\* C5: if opening the connection or running the schema script fails, the
\* error reaches the caller of getConnection and the registry holds no handle
\* for the shard afterwards, so every cached handle is one of a store that
\* holds the schema.
C5_FailedOpenNotCached ==
    /\ (ev.kind = "get" /\ ev.opened /\ ~ev.bootOk) => (ev.thrown /\ ~Cached(ev.key))
    /\ \A k \in Keys : Cached(k) => store[k].schema

\* C6: in every reachable state of a bootstrapped shard the fourteen seeded
\* categories with ids 1 to 14 are present with isDefault = true and no other
\* category is flagged isDefault = true.
C6_DefaultsKept ==
    \A k \in Keys :
       store[k].schema =>
          /\ \A i \in DefaultIds : HasRow(store[k].cats, i) /\ store[k].cats[i].isDefault
          /\ \A i \in DOMAIN store[k].cats : i \notin DefaultIds => ~store[k].cats[i].isDefault

\* C6 witness: the shard was opened again after a close, a default category
\* is renamed, a user category exists, and a delete of a default category
\* has just been refused
C6_Witness ==
    /\ ev.kind = "resp" /\ ev.msg = "Cannot delete default categories"
    /\ \E h \in DOMAIN handles : handles[h].reopen
    /\ store[<<1, 2024>>].cats[9].name = "B"
    /\ HasRow(store[<<1, 2024>>].cats, 15)

\* C7: every transaction stored in shard (tenant, Y) has a date whose year
\* is Y.
C7_YearMatchesShard ==
    \A k \in Keys :
       \A t \in DOMAIN store[k].txs :
          /\ store[k].txs[t].date.k = "iso"
          /\ store[k].txs[t].date.y = k[2]

\* C8: every stored transaction has an amount that is a positive number,
\* whatever amount (number or string) create and update accepted.
C8_AmountPositive ==
    \A k \in Keys :
       \A t \in DOMAIN store[k].txs : IsPositiveNumber(store[k].txs[t].amount)

\* the transactions of file f whose category_id is id
Referencing(f, id) == {t \in DOMAIN f.txs : f.txs[t].categoryId = id}

\* slot s took this step
Moved(s) == reqs'[s] # reqs[s]

\* C9: the delete of a non-default category that N > 0 transactions of the
\* shard reference answers 400 "used in N transaction(s)" with exactly that N
\* and leaves the categories and the transactions as they were; nothing the
\* handler does before the DELETE statement writes to the shard.
C9_DeleteInUse ==
    [][\A s \in Slots :
          LET r == reqs[s] IN
          (r.op = "catDelete" /\ Moved(s) /\ Usable(r.h))
             => /\ r.pc \in {"check", "count"} => store' = store
                /\ (/\ r.pc = "count"
                    /\ HasRow(File(r).cats, r.id)
                    /\ Cardinality(Referencing(File(r), r.id)) > 0)
                      => /\ ev'.kind = "resp" /\ ev'.status = 400
                         /\ ev'.msg = "Cannot delete category. It is used"
                         /\ ev'.count = Cardinality(Referencing(File(r), r.id))
                         /\ reqs'[s] = Idle]_vars

\* C9 witness: the delete of the user's category was refused while two
\* transactions reference it
C9_Witness ==
    /\ ev.kind = "resp" /\ ev.op = "catDelete" /\ ev.count = 2
    /\ HasRow(store[ev.key].cats, ev.id) /\ ~store[ev.key].cats[ev.id].isDefault
    /\ Cardinality(Referencing(store[ev.key], ev.id)) = 2

\* C10: the delete of an existing non-default category that no transaction
\* references goes through its three statements and answers 200; the row is
\* gone, every other category and every transaction is as before, the id
\* never comes back and a list reports exactly the stored categories; the
\* delete of an id that is not in the table answers 404 and changes nothing.
C10_DeleteUnused ==
    [][/\ \A s \in Slots :
            LET r == reqs[s]
                f == File(r)
                g == store'[KeyOf(r.h)]
            IN
            /\ (r.op = "catDelete" /\ Moved(s) /\ Usable(r.h))
                 => /\ (r.pc = "check" /\ ~HasRow(f.cats, r.id))
                         => (ev'.kind = "resp" /\ ev'.status = 404 /\ store' = store)
                    /\ (r.pc = "check" /\ HasRow(f.cats, r.id) /\ ~f.cats[r.id].isDefault)
                         => reqs'[s] = [r EXCEPT !.pc = "count"]
                    /\ (r.pc = "count" /\ Referencing(f, r.id) = {})
                         => reqs'[s] = [r EXCEPT !.pc = "delete"]
                    /\ r.pc = "delete"
                         => /\ ev'.kind = "resp" /\ ev'.status = 200
                            /\ DOMAIN g.cats = DOMAIN f.cats \ {r.id}
                            /\ \A i \in DOMAIN g.cats : g.cats[i] = f.cats[i]
                            /\ g.txs = f.txs
            /\ (r.op = "catList" /\ Moved(s) /\ Usable(r.h))
                 => /\ ev'.kind = "resp" /\ ev'.status = 200
                    /\ {c.id : c \in ev'.data} = DOMAIN f.cats
       /\ \A k \in Keys :
            \A i \in 1..store[k].catSeq :
               ~HasRow(store[k].cats, i) => ~HasRow(store'[k].cats, i)]_vars

\* C10 witness: the user's category was created and deleted, and the list
\* that has just been answered does not report it
C10_Witness ==
    /\ ev.kind = "resp" /\ ev.op = "catList" /\ ev.status = 200
    /\ store[ev.key].catSeq > NumDefaults
    /\ \A c \in ev.data : c.id \in DefaultIds

\* C11: the delete of a category whose isDefault is true answers 400 "Cannot
\* delete default categories" at its first statement, whether or not
\* transactions reference the category; the categories and the transactions
\* of the shard stay as they were and the handler never gets to the usage
\* count or to the DELETE statement.
C11_DefaultDeleteRefused ==
    /\ [](\A s \in Slots :
            (reqs[s].op = "catDelete" /\ reqs[s].pc \in {"count", "delete"})
               => ~(/\ HasRow(File(reqs[s]).cats, reqs[s].id)
                    /\ File(reqs[s]).cats[reqs[s].id].isDefault))
    /\ [][\A s \in Slots :
            LET r == reqs[s] IN
            (/\ r.op = "catDelete" /\ r.pc = "check" /\ Moved(s) /\ Usable(r.h)
             /\ HasRow(File(r).cats, r.id) /\ File(r).cats[r.id].isDefault)
               => /\ ev'.kind = "resp" /\ ev'.status = 400
                  /\ ev'.msg = "Cannot delete default categories"
                  /\ reqs'[s] = Idle
                  /\ store' = store]_vars

\* C11 witness: the delete of default category 9 was refused while a
\* transaction of the shard references it
C11_Witness ==
    /\ ev.kind = "resp" /\ ev.op = "catDelete" /\ ev.status = 400 /\ ev.id = 9
    /\ ev.msg = "Cannot delete default categories"
    /\ Referencing(store[ev.key], 9) # {}

\* the shard of the tenant of request r and of the calendar year of its date
DateShard(r) == <<KeyOf(r.h)[1], YearOfDate(r.date)>>

\* C12: a transaction create whose categoryId is the id of no category of
\* the shard (tenant, year of the date), that shard being bootstrapped,
\* answers 400 "Invalid category" and stores no transaction in any shard,
\* also when another shard of the tenant holds a category with that id; the
\* INSERT statement is reached only with a category of that shard.
C12_CategoryOfDateShard ==
    [][\A s \in Slots :
          LET r == reqs[s] IN
          (r.op = "txCreate" /\ Moved(s) /\ Usable(r.h) /\ r.date.k = "iso")
             => LET k == DateShard(r) IN
                /\ (/\ r.pc = "verify"
                    /\ store[k].schema
                    /\ ~HasRow(store[k].cats, r.cat))
                      => /\ ev'.kind = "resp" /\ ev'.status = 400
                         /\ ev'.msg = "Invalid category"
                         /\ reqs'[s] = Idle
                         /\ \A k2 \in Keys : store'[k2].txs = store[k2].txs
                /\ (r.pc = "insert" /\ store[k].schema)
                      => HasRow(store[k].cats, r.cat)]_vars

\* C13: a transaction update with valid fields (a date, a type of the two,
\* a positive amount, a category of the shard) whose id is the id of no
\* transaction of the shard (tenant, year of the new date), that shard being
\* bootstrapped, answers 404 "Transaction not found" and no transaction of
\* any shard is modified.
C13_UpdateMissingRow ==
    [][\A s \in Slots :
          LET r == reqs[s] IN
          (/\ r.op = "txUpdate" /\ Moved(s) /\ Usable(r.h)
           /\ r.date.k = "iso" /\ r.type \in Types /\ IsPositiveNumber(r.amount))
             => LET k == DateShard(r) IN
                (/\ store[k].schema
                 /\ HasRow(store[k].cats, r.cat)
                 /\ ~HasRow(store[k].txs, r.id))
                   => /\ \A k2 \in Keys : store'[k2].txs = store[k2].txs
                      /\ r.pc = "verify" => reqs'[s] = [r EXCEPT !.pc = "update"]
                      /\ r.pc = "update"
                            => /\ ev'.kind = "resp" /\ ev'.status = 404
                               /\ ev'.msg = "Transaction not found"
                               /\ reqs'[s] = Idle]_vars

\* the figures a stats call reports on a shard whose transactions are txs
StatsOf(txs, year) ==
    StatsData(SumAmounts(txs, {t \in DOMAIN txs : txs[t].type = "income"}),
              SumAmounts(txs, {t \in DOMAIN txs : txs[t].type = "expense"}),
              Cardinality(DOMAIN txs),
              MonthlyStats(txs, year))

\* every transactions table a shard of SpecStats can hold
StatsTables ==
    LET rows == [amount : {Num(100)}, date : StatsDates, type : Types,
                 categoryId : {9}]
    IN  UNION {[ids -> rows] : ids \in SUBSET TxIds}

\* C14: the figures of one stats response (totalIncome, totalExpenses,
\* transactionCount, monthlyStats) are the figures of one state of the
\* shard: some transactions table yields all of them together, also when
\* transaction creates, updates and deletes run between the four queries.
C14_StatsOneSnapshot ==
    [][(ev'.kind = "resp" /\ ev'.op = "stats" /\ ev'.status = 200 /\ reqs[1].op = "stats"
        /\ reqs'[1] = Idle)
          => \E txs \in StatsTables : StatsOf(txs, reqs[1].year) = ev'.data]_vars

\* C15: every category and transaction request of a caller whose role is
\* not superadmin (slot 1 of SpecTenants), whatever userId and year its
\* query carries, is given the handle of a shard file of the caller's own
\* tenant, and its statements leave the files of every other tenant as they
\* were.
C15_OwnTenantOnly ==
    [][Moved(1)
         => /\ reqs'[1].op # "idle"
                  => PathOf(handles'[reqs'[1].h].key)[1] = Alice.id
            /\ \A k \in Keys : k[1] # Alice.id => store'[k] = store[k]]_vars

\* C16: every category and transaction request ends with a response, a
\* result or an error, under every interleaving with other requests on the
\* same shard: the step that ends a request writes a response.
C16_OneOutcome ==
    [][\A s \in Slots :
          (reqs[s].op # "idle" /\ reqs'[s].op = "idle") => ev'.kind = "resp"]_vars

\* C17: a request that has got to its mutating statement (the INSERT or
\* UPDATE of a transaction, the INSERT of a category) carries valid input:
\* the required fields, a type that is income or expense and, for an amount
\* sent as a number, a value greater than 0.
C17_ValidatedBeforeWrite ==
    \A s \in Slots :
       LET r == reqs[s] IN
       /\ (/\ r.op \in {"txCreate", "txUpdate"} /\ r.pc \in {"insert", "update"}
           /\ r.amount.t = "num")
             => /\ r.type \in Types
                /\ r.amount.v > 0
                /\ r.date.k # "absent" /\ r.cat # 0
       /\ (r.op = "catCreate" /\ r.pc = "insert")
             => (r.name # "" /\ r.type \in Types)

\* C18: when getConnection opens a shard that has no file yet and the schema
\* script runs to its end, the shard holds exactly the fourteen categories
\* with ids 1 to 14, seven of type income and seven of type expense, all with
\* isDefault = true, and no transaction.
C18_FreshShard ==
    [][\A k \in Keys :
          (/\ ev'.kind = "get" /\ ev'.key = k /\ ev'.opened /\ ev'.bootOk
           /\ ~store[PathOf(k)].exists)
             => LET f == store'[PathOf(k)] IN
                /\ f.exists /\ f.schema
                /\ DOMAIN f.cats = 1..14
                /\ Cardinality({i \in DOMAIN f.cats : f.cats[i].type = "income"}) = 7
                /\ Cardinality({i \in DOMAIN f.cats : f.cats[i].type = "expense"}) = 7
                /\ \A i \in DOMAIN f.cats : f.cats[i].isDefault
                /\ DOMAIN f.txs = {}]_vars

\* C18 witness: a shard has just been opened for the first time and
\* bootstrapped while another shard already holds a transaction
C18_Witness ==
    /\ ev.kind = "get" /\ ev.opened /\ ev.bootOk
    /\ ~handles[ev.h].reopen
    /\ store[ev.key].catSeq = NumDefaults /\ store[ev.key].txSeq = 0
    /\ \E k \in Keys : store[k].txSeq > 0

\* C19: when getConnection opens a shard whose file already holds the
\* schema, the schema script leaves the categories (renamed defaults and
\* user categories included) and the transactions exactly as they were and
\* the schema stays in place.
C19_BootstrapIdempotent ==
    [][\A k \in Keys :
          (ev'.kind = "get" /\ ev'.key = k /\ ev'.opened /\ store[PathOf(k)].schema)
             => /\ store'[PathOf(k)].schema
                /\ store'[PathOf(k)].cats = store[PathOf(k)].cats
                /\ store'[PathOf(k)].txs = store[PathOf(k)].txs]_vars

\* C19 witness: the schema script has just run to its end on a shard that
\* holds a renamed default category, a user category and a transaction
C19_Witness ==
    /\ ev.kind = "get" /\ ev.opened /\ ev.bootOk
    /\ handles[ev.h].reopen
    /\ store[ev.key].cats[9].name = "B"
    /\ HasRow(store[ev.key].cats, NumDefaults + 1)
    /\ DOMAIN store[ev.key].txs # {}

\* C20: closeConnection(t, y) closes the handle cached for (t, y), removes
\* the entry and leaves every other entry and every other handle as it was;
\* closeAllConnections closes every cached handle and leaves the registry
\* empty; no closed handle is in the registry or is what getConnection has
\* just returned.
C20_CloseEvicts ==
    /\ [](/\ \A k \in Keys : Cached(k) => ~handles[connections[k]].closed
          /\ ev.kind = "get" => ~handles[ev.h].closed)
    /\ [][/\ ev'.kind = "close"
               => LET k == ev'.key IN
                  /\ connections'[k] = NoHandle
                  /\ Cached(k) => handles'[connections[k]].closed
                  /\ \A k2 \in Keys \ {k} : connections'[k2] = connections[k2]
                  /\ \A h \in DOMAIN handles :
                        h # connections[k] => handles'[h] = handles[h]
          /\ ev'.kind = "closeAll"
               => \A k \in Keys :
                     /\ connections'[k] = NoHandle
                     /\ Cached(k) => handles'[connections[k]].closed]_vars

\* C20 witness: closeConnection has just closed the handle of one shard
\* while the handle of another shard stays cached and open
C20_Witness ==
    /\ ev.kind = "close" /\ ev.h # NoHandle /\ handles[ev.h].closed
    /\ \E k \in Keys : k # ev.key /\ Cached(k) /\ ~handles[connections[k]].closed

\* the sum of the amounts of the transactions ids, an amount being the
\* number the responses report for it (parseFloat of the stored value); the
\* sum is NaN when one of them is
RECURSIVE AmountSum(_, _)
AmountSum(txs, ids) ==
    IF ids = {} THEN [nan |-> FALSE, v |-> 0]
    ELSE LET t == CHOOSE x \in ids : TRUE
             a == ParseFloat(txs[t].amount)
             rest == AmountSum(txs, ids \ {t})
         IN  [nan |-> a.nan \/ rest.nan,
              v |-> IF a.nan \/ rest.nan THEN 0 ELSE a.v + rest.v]

\* the number n as a sum that is not NaN
Exactly(n) == [nan |-> FALSE, v |-> n]

\* C21: with one request at a time, a stats response reports totalIncome
\* and totalExpenses equal to the sums of the amounts of the income and of
\* the expense transactions of the shard, netBalance equal to their
\* difference, transactionCount equal to the number of transactions, and
\* for every month of the requested year with transactions a bucket with
\* the sums of that month's income and expense amounts (no bucket for a
\* month without transactions).
C21_StatsSums ==
    [][(/\ ev'.kind = "resp" /\ ev'.op = "stats" /\ ev'.status = 200
        /\ reqs[1].op = "stats" /\ reqs'[1] = Idle)
          => LET txs == File(reqs[1]).txs
                 year == reqs[1].year
                 d == ev'.data
                 ofType(type) == {t \in DOMAIN txs : txs[t].type = type}
                 inMonth(m, type) ==
                    {t \in ofType(type) :
                        /\ txs[t].date.k = "iso" /\ txs[t].date.y = year
                        /\ MonthOf(txs[t].date) = <<year, m>>}
             IN  /\ Exactly(d.totalIncome) = AmountSum(txs, ofType("income"))
                 /\ Exactly(d.totalExpenses) = AmountSum(txs, ofType("expense"))
                 /\ d.netBalance = d.totalIncome - d.totalExpenses
                 /\ d.transactionCount = Cardinality(DOMAIN txs)
                 /\ \A m \in 1..12 :
                       IF inMonth(m, "income") \cup inMonth(m, "expense") = {}
                       THEN <<year, m>> \notin DOMAIN d.monthlyStats
                       ELSE /\ <<year, m>> \in DOMAIN d.monthlyStats
                            /\ Exactly(d.monthlyStats[<<year, m>>].income)
                                  = AmountSum(txs, inMonth(m, "income"))
                            /\ Exactly(d.monthlyStats[<<year, m>>].expenses)
                                  = AmountSum(txs, inMonth(m, "expense"))]_vars

\* the least number of pages of s rows that hold n rows
PagesFor(n, s) == CHOOSE k \in 0..n : k * s >= n /\ (k = 0 \/ (k - 1) * s < n)

\* the number of rows page p holds when n rows are cut into pages of s
RowsOnPage(n, p, s) ==
    LET left == IF n - (p - 1) * s > 0 THEN n - (p - 1) * s ELSE 0
    IN  IF s < left THEN s ELSE left

\* C22: a list request for page p >= 1 with page size s >= 1, answered with no
\* other request in flight on a shard of n transactions, reports totalCount n,
\* totalPages = ceil(n / s), hasNextPage exactly when p < totalPages,
\* hasPrevPage exactly when p > 1, and returns min(s, max(0, n - (p-1)*s)) rows.
C22_Pagination ==
    [][\A k \in Keys :
         LET r == reqs[1]
             n == Cardinality(DOMAIN store[k].txs)
             d == ev'.data
         IN  (/\ r.op = "txList" /\ r.pc = "rows"
              /\ ev'.op = "txList" /\ ev'.status = 200 /\ ev'.key = k
              /\ r.page >= 1 /\ r.limit >= 1)
             => /\ d.totalCount = n
                /\ d.currentPage = r.page
                /\ d.totalPages = PagesFor(n, r.limit)
                /\ d.hasNextPage = (r.page < PagesFor(n, r.limit))
                /\ d.hasPrevPage = (r.page > 1)
                /\ Len(d.rows) = RowsOnPage(n, r.page, r.limit)]_vars

\* the last page of a list of two transactions in pages of one row
C22_Witness ==
    /\ ev.kind = "resp" /\ ev.op = "txList" /\ ev.status = 200
    /\ ev.data.totalCount = 2 /\ ev.data.totalPages = 2 /\ ev.data.currentPage = 2
    /\ ev.data.hasPrevPage /\ ~ev.data.hasNextPage
    /\ Len(ev.data.rows) = 1

\* the transactions of a table that ORDER BY date DESC, id DESC puts before t
Preceding(txs, t) ==
    {u \in DOMAIN txs :
        \/ DateRank(txs[u].date) > DateRank(txs[t].date)
        \/ DateRank(txs[u].date) = DateRank(txs[t].date) /\ u > t}

\* C29: with no other request in flight, row i of page p of a list in pages
\* of s rows is the transaction that exactly (p-1)*s + i - 1 transactions of
\* the shard precede in the order (date descending, id descending), and the
\* page holds every transaction whose place falls on it: the pages
\* 1..totalPages, put one after the other, are the ordered transactions of the
\* shard, each once, also when transactions share a date.
C29_PagesConcatenate ==
    [][\A k \in Keys :
         LET r == reqs[1]
             txs == store[k].txs
             rows == ev'.data.rows
             first == (r.page - 1) * r.limit
         IN  (/\ r.op = "txList" /\ r.pc = "rows"
              /\ ev'.op = "txList" /\ ev'.status = 200 /\ ev'.key = k
              /\ r.page >= 1 /\ r.limit >= 1)
             => /\ \A i \in 1..Len(rows) :
                      /\ rows[i].id \in DOMAIN txs
                      /\ Cardinality(Preceding(txs, rows[i].id)) = first + i - 1
                /\ \A t \in DOMAIN txs :
                      LET place == Cardinality(Preceding(txs, t)) + 1
                      IN  (place > first /\ place <= first + r.limit)
                          => \E i \in 1..Len(rows) : rows[i].id = t]_vars

\* page 2 of a list in pages of one row over two transactions of one date:
\* it holds the transaction with the lower id
C29_Witness ==
    /\ ev.kind = "resp" /\ ev.op = "txList" /\ ev.status = 200
    /\ ev.data.currentPage = 2 /\ ev.data.totalCount = 2
    /\ Len(ev.data.rows) = 1 /\ ev.data.rows[1].id = 1
    /\ \E k \in Keys :
          /\ ev.key = k
          /\ DOMAIN store[k].txs = {1, 2}
          /\ store[k].txs[1].date = store[k].txs[2].date

\* the amounts of the request bodies whose numeric value is 0 or less
AtMostZero == {a \in AmountInputs :
                 a.t # "absent" /\ ~ParseFloat(a).nan /\ ParseFloat(a).v <= 0}

\* C23: a transaction create whose amount is 0 or less, with a valid date,
\* type and categoryId, answers 400, starts no request, stores nothing and
\* opens or creates no shard; no create with such an amount is ever in flight.
C23_NonPositiveRefused ==
    [][/\ \A amount \in AtMostZero, type \in Types :
            TxCreateStart(1, Alice, amount, MidYear, type, 9, TRUE)
               => /\ ev'.kind = "resp" /\ ev'.op = "txCreate" /\ ev'.status = 400
                  /\ store' = store
                  /\ handles' = handles /\ connections' = connections
                  /\ reqs' = reqs
       /\ \A s \in Slots :
            reqs'[s].op = "txCreate" => reqs'[s].amount \notin AtMostZero]_vars

\* the first request was a create with an amount of 0 or less: it was
\* answered 400 and there is no file and no connection
C23_Witness ==
    /\ ev.kind = "resp" /\ ev.op = "txCreate" /\ ev.status = 400
    /\ ev.msg = "Amount must be greater than 0"
    /\ \A k \in Keys : ~store[k].exists
    /\ DOMAIN handles = {}

\* C30: every stored transaction has type income or expense; no step of an
\* update that carries another type changes the store or answers 200, and
\* its UPDATE statement, when the row exists, answers 500.
C30_TypeInEnum ==
    /\ [](\A k \in Keys :
            \A t \in DOMAIN store[k].txs : store[k].txs[t].type \in Types)
    /\ [][\A s \in Slots :
            LET r == reqs[s] IN
            (r.op = "txUpdate" /\ r.type \notin Types /\ Moved(s))
               => /\ store' = store
                  /\ ~(ev'.kind = "resp" /\ ev'.status = 200)
                  /\ (r.pc = "update" /\ Usable(r.h) /\ r.id \in DOMAIN File(r).txs)
                        => /\ ev'.kind = "resp" /\ ev'.status = 500
                           /\ reqs'[s] = Idle]_vars

\* an update of a stored transaction failed at its UPDATE statement and the
\* row is as it was stored
C30_Witness ==
    /\ ev.kind = "resp" /\ ev.op = "txUpdate" /\ ev.status = 500
    /\ ev.msg = "Failed to update transaction"
    /\ \E k \in Keys :
          /\ ev.key = k
          /\ ev.id \in DOMAIN store[k].txs
          /\ store[k].txs[ev.id].type \in Types

\* C24: a category create whose name or type is missing, or whose type is
\* neither income nor expense, answers 400, starts no request and leaves every
\* shard as it was: no category row is added, no file is created.
C24_BadCategoryRefused ==
    [][\A s \in Slots, name \in {"", "A"}, type \in {"", "income", "bogus"},
         ok \in BOOLEAN :
          (/\ name = "" \/ type \notin Types
           /\ CatCreateStart(s, Alice, NoParam, 2024, name, type, ok))
             => /\ ev'.kind = "resp" /\ ev'.op = "catCreate" /\ ev'.status = 400
                /\ store' = store
                /\ reqs' = reqs]_vars

\* the first request was a category create with a type that is neither
\* income nor expense: it was answered 400 and there is no file
C24_Witness ==
    /\ ev.kind = "resp" /\ ev.op = "catCreate" /\ ev.status = 400
    /\ ev.msg = "Type must be income or expense"
    /\ \A k \in Keys : ~store[k].exists

\* C25: a backup call that returns a file name returns a name that no
\* earlier backup call returned (no backup file on disk has it), and leaves
\* every store file as it was.
C25_BackupNamesDistinct ==
    [][(ev'.kind = "backup" /\ ev'.file # NoBackup)
          => /\ ev'.file \notin DOMAIN backups
             /\ store' = store]_vars

\* C26: a backup call for a shard that has no store file returns none and
\* changes nothing: no backup file is written, no store file is created or
\* changed, and the registry and the Database objects are as they were.
C26_BackupMissingStore ==
    [][\A key \in Keys :
          (ev'.kind = "backup" /\ ev'.key = key /\ ~store[PathOf(key)].exists)
             => /\ ev'.file = NoBackup
                /\ backups' = backups
                /\ store' = store
                /\ connections' = connections /\ handles' = handles]_vars

\* a backup call returned none for a shard without a store while another
\* shard has one
C26_Witness ==
    /\ ev.kind = "backup" /\ ev.file = NoBackup
    /\ ~store[PathOf(ev.key)].exists
    /\ \E k \in Keys : store[k].exists
    /\ backups = <<>>

\* C27: getUserYears(tenant) returns the years for which a store of a shard
\* of that tenant is on disk, each once, in strictly descending order; years
\* of other tenants and of backup files are not in it.
C27_UserYears ==
    [][ev'.kind = "years"
          => LET ys == ev'.years
                 onDisk == {y \in Years : store[<<ev'.tenant, y>>].exists}
             IN  /\ \A i \in 1..(Len(ys) - 1) : ys[i] > ys[i + 1]
                 /\ {ys[i] : i \in 1..Len(ys)} = onDisk]_vars

\* C28: the UPDATE statement of a transaction update with valid fields
\* touches only the shard (tenant, year of the new date): every other store
\* file, with any transaction of the same id in it, is left as it was, and
\* when that shard holds a transaction with the id, that row takes the new
\* date, type and category.
C28_UpdateOnlyDateShard ==
    [][\A s \in Slots :
          LET r == reqs[s] IN
          (/\ r.op = "txUpdate" /\ r.pc = "update" /\ Moved(s) /\ Usable(r.h)
           /\ r.date.k = "iso" /\ r.type \in Types /\ IsPositiveNumber(r.amount))
             => LET k == DateShard(r) IN
                /\ \A k2 \in Keys \ {k} : store'[k2] = store[k2]
                /\ (store[k].schema /\ r.id \in DOMAIN store[k].txs)
                      => /\ r.id \in DOMAIN store'[k].txs
                         /\ store'[k].txs[r.id].date = r.date
                         /\ store'[k].txs[r.id].type = r.type
                         /\ store'[k].txs[r.id].categoryId = r.cat]_vars
====
